---- MODULE Spec2Model ----
(***************************************************************************)
(* Model of box (src/box/cli.py, src/box/ssh_mount.py): the named-image    *)
(* configuration store, the image resolution state machine, the mount      *)
(* resolution pipeline and main(), as successive invocations of the tool   *)
(* against one configuration file and one container runtime.               *)
(*                                                                         *)
(* Strings that the code only concatenates are TLA+ strings.  Strings the  *)
(* code parses character by character (confirmation responses, mount       *)
(* specs, paths) are sequences of one-character strings.                   *)
(***************************************************************************)
EXTENDS Integers, Sequences, FiniteSets, TLC

\* Python's None where the other values are strings.
None == "None"
\* Python's None where the other values are character sequences; no
\* destination the code computes is the empty string.
NoPath == <<>>

---------------------------------------------------------------------------
(* Bounds *)

\* Number of invocations of the tool in one behaviour.
MaxRuns == 2

---------------------------------------------------------------------------
(* Sequence helpers *)

RECURSIVE Concat(_)
Concat(ss) == IF ss = <<>> THEN <<>> ELSE Head(ss) \o Concat(Tail(ss))

Count(s, c) == Cardinality({i \in 1..Len(s) : s[i] = c})

StartsWith(s, c) == Len(s) > 0 /\ s[1] = c

\* index of the last / first occurrence of c in s, 0 when there is none
LastIndex(s, c) == IF \E i \in 1..Len(s) : s[i] = c
                   THEN CHOOSE i \in 1..Len(s) : s[i] = c /\ \A j \in (i+1)..Len(s) : s[j] # c
                   ELSE 0
FirstIndex(s, c) == IF \E i \in 1..Len(s) : s[i] = c
                    THEN CHOOSE i \in 1..Len(s) : s[i] = c /\ \A j \in 1..(i-1) : s[j] # c
                    ELSE 0

\* s[a..b] (1-based, inclusive), empty when a > b
Slice(s, a, b) == IF a > b THEN <<>> ELSE SubSeq(s, a, b)

---------------------------------------------------------------------------
(* str.strip().lower() on the confirmation response *)

IsSpace(c) == c \in {" ", "\t", "\n"}

RECURSIVE LStrip(_)
LStrip(s) == IF s # <<>> /\ IsSpace(Head(s)) THEN LStrip(Tail(s)) ELSE s

RECURSIVE RStrip(_)
RStrip(s) == IF s # <<>> /\ IsSpace(s[Len(s)]) THEN RStrip(SubSeq(s, 1, Len(s) - 1)) ELSE s

Strip(s) == RStrip(LStrip(s))

LowerChar(c) == CASE c = "Y" -> "y"
                  [] c = "E" -> "e"
                  [] c = "S" -> "s"
                  [] c = "N" -> "n"
                  [] c = "O" -> "o"
                  [] OTHER -> c

Lower(s) == [i \in 1..Len(s) |-> LowerChar(s[i])]

\* Mutant of Confirmed: the response is lower-cased but not trimmed.
ConfirmedUntrimmed(response) == Lower(response) \in {<<"y">>, <<"y", "e", "s">>}

\* response = input(...).strip().lower(); response in ['y', 'yes']
Confirmed(response) == Lower(Strip(response)) \in {<<"y">>, <<"y", "e", "s">>}

\* What the user may type at the overwrite prompt.
Responses == { <<"y">>, <<"Y">>, <<"y", "e", "s">>, <<" ", "Y", "e", "S", " ">>,
               <<"\t", "y", "\n">>,
               <<>>, <<"n">>, <<"N", "O">>, <<"y", "e">>, <<"y", " ", "e", "s">>,
               <<"y", "e", "s", "s">> }

---------------------------------------------------------------------------
(* ImageBuilder: base image and derived image names *)

\* str.lower() on the command words the model uses
LowerWord(w) == CASE w = "NPM" -> "npm"
                  [] w = "Python" -> "python"
                  [] w = "BASH" -> "bash"
                  [] OTHER -> w

node_commands == { "npm", "npx", "yarn", "pnpm", "node", "nodejs",
                   "webpack", "vite", "next", "nuxt", "gatsby",
                   "react-scripts", "vue-cli-service", "ng", "angular",
                   "tsc", "ts-node", "eslint", "prettier", "jest" }

python_commands == { "python", "python3", "pip", "pip3", "pipenv", "poetry",
                     "pytest", "black", "flake8", "mypy", "pylint",
                     "django-admin", "flask", "gunicorn", "uvicorn",
                     "jupyter", "ipython", "conda", "mamba" }

\* cwd: the kinds of project marker files in the caller's working directory,
\* a subset of {"node", "python"}.
detect_container_type_from_command(command, cwd) ==
    IF command = <<>> THEN "alpine"
    ELSE LET first_cmd == LowerWord(command[1]) IN
         IF first_cmd \in node_commands THEN "node"
         ELSE IF first_cmd \in python_commands THEN "python"
         ELSE IF first_cmd \in {"bash", "sh", "zsh"} /\ "node" \in cwd THEN "node"
         ELSE IF first_cmd \in {"bash", "sh", "zsh"} /\ "python" \in cwd THEN "python"
         ELSE "alpine"

\* "x if x else d" on an optional string
OrDefault(x, d) == IF x = None \/ x = "" THEN d ELSE x

\* Mutant of get_base_image: the command is looked at before the flags.
get_base_image_DetectionFirst(a, cwd) ==
    LET detected_type == detect_container_type_from_command(a.command, cwd) IN
    IF detected_type = "node" THEN <<"node", ":", OrDefault(a.image_version, "lts")>>
    ELSE IF detected_type = "python" THEN <<"python", ":", OrDefault(a.image_version, "latest")>>
    ELSE IF a.node THEN <<"node", ":", OrDefault(a.image_version, "lts")>>
    ELSE IF a.py THEN <<"python", ":", OrDefault(a.image_version, "latest")>>
    ELSE <<"alpine", ":", "latest">>

\* The base image tag as the sequence <<repository, ":", tag>>.
get_base_image(a, cwd) ==
    IF a.node THEN <<"node", ":", OrDefault(a.image_version, "lts")>>
    ELSE IF a.py THEN <<"python", ":", OrDefault(a.image_version, "latest")>>
    ELSE LET detected_type == detect_container_type_from_command(a.command, cwd) IN
         IF detected_type = "node" THEN <<"node", ":", OrDefault(a.image_version, "lts")>>
         ELSE IF detected_type = "python" THEN <<"python", ":", OrDefault(a.image_version, "latest")>>
         ELSE <<"alpine", ":", "latest">>

\* ''.join(parts)
RECURSIVE Join(_)
Join(parts) == IF parts = <<>> THEN "" ELSE Head(parts) \o Join(Tail(parts))

\* base_image.replace(':', '-').replace('/', '-')
SafeName(base_image) ==
    Join([i \in 1..Len(base_image) |->
            IF base_image[i] \in {":", "/"} THEN "-" ELSE base_image[i]])

get_box_image_name(base_image, include_tmux, custom_name) ==
    LET suffix == IF include_tmux THEN "-tmux" ELSE "" IN
    IF custom_name # None /\ custom_name # ""
    THEN "box-named-" \o custom_name \o suffix
    ELSE "box-" \o SafeName(base_image) \o suffix

---------------------------------------------------------------------------
(* ConfigManager: the stored configuration entry and the file *)

\* config_entry of save_image_config
ConfigEntry(a) ==
    [ command |-> a.command, node |-> a.node, py |-> a.py,
      image_version |-> a.image_version, tmux |-> a.tmux,
      port |-> a.port, read_only |-> a.read_only, read_write |-> a.read_write,
      no_network |-> a.no_network, internal_network |-> a.internal_network,
      http_proxy |-> a.http_proxy ]

\* {'images': {}}
EmptyConfig == [images |-> <<>>]

\* A JSON object that has no "images" member, e.g. {"version": "1"}.
ObjectWithoutImages == [version |-> "1"]

\* The configuration file: absent ("missing"), text that is not JSON or a file
\* that cannot be opened ("corrupt"), bytes that are not text in the locale's
\* encoding ("undecodable"), or the JSON document last written ("ok").
NoFile == [state |-> "missing", data |-> EmptyConfig]

\* json.load raises UnicodeDecodeError, which "except (json.JSONDecodeError,
\* IOError)" does not catch
LoadRaises(file) == file.state = "undecodable"

_load_config(file) == IF file.state = "ok" THEN file.data ELSE EmptyConfig

\* name in self.config.get('images', {})
HasImage(cfg, name) == "images" \in DOMAIN cfg /\ name \in DOMAIN cfg.images

\* self.config['images'] raises KeyError
SaveRaises(cfg) == "images" \notin DOMAIN cfg

\* Mutant of WithImage: the entry is not stored.
WithImageNotStored(cfg, name, entry) == cfg

\* the mapping with images[name] = entry
WithImage(cfg, name, entry) ==
    [images |-> [n \in (DOMAIN cfg.images) \cup {name} |->
                    IF n = name THEN entry ELSE cfg.images[n]]]

\* Args(config, name): the argument holder rebuilt from a stored entry
Args(entry, name) ==
    [ node |-> entry.node, py |-> entry.py, image_version |-> entry.image_version,
      tmux |-> entry.tmux, command |-> entry.command, name |-> name,
      no_network |-> entry.no_network, internal_network |-> entry.internal_network,
      http_proxy |-> entry.http_proxy ]

---------------------------------------------------------------------------
(* SpecParser, SSHFSManager and VolumeMapper: mount specs *)

\* Mount specs are character sequences.  Path.cwd() and the directory of the
\* SSHFS mount points are single symbols: the code never looks inside them.
Cwd == <<"/", "cwd">>
mount_base == <<"/", "home", "/", ".box-cli", "/", "ssh-mounts">>

\* [^:/@]+:[^:]+$ matched against the whole of r
MatchHostPath(r) ==
    \E j \in 2..(Len(r) - 1) :
        /\ r[j] = ":"
        /\ \A i \in 1..(j-1) : r[i] \notin {":", "/", "@"}
        /\ \A i \in (j+1)..Len(r) : r[i] # ":"

\* re.match(r'^([^@]+@)?[^:/@]+:[^:]+$', spec)
MatchSshPattern(spec) ==
    \/ MatchHostPath(spec)
    \/ LET k == FirstIndex(spec, "@") IN
       k >= 2 /\ MatchHostPath(Slice(spec, k + 1, Len(spec)))

is_ssh_url(spec) ==
    /\ MatchSshPattern(spec)
    /\ ~StartsWith(spec, "/")
    /\ ~(Len(spec) > 1 /\ Slice(spec, 2, IF Len(spec) < 3 THEN Len(spec) ELSE 3) = <<":", "\\">>)

\* spec.rsplit(':', 1) of a spec that contains ':'
RSplitHead(spec) == Slice(spec, 1, LastIndex(spec, ":") - 1)
RSplitTail(spec) == Slice(spec, LastIndex(spec, ":") + 1, Len(spec))

\* parse_ssh_url: <<user, host, remote_path>>, user = NoPath for None
parse_ssh_url(spec) ==
    IF Count(spec, "@") > 0
    THEN LET user_host == RSplitHead(spec)
             k == FirstIndex(user_host, "@")
         IN  [user |-> Slice(user_host, 1, k - 1),
              host |-> Slice(user_host, k + 1, Len(user_host)),
              remote_path |-> RSplitTail(spec)]
    ELSE [user |-> NoPath, host |-> RSplitHead(spec), remote_path |-> RSplitTail(spec)]

\* Path(p).name for a path without a trailing slash
Basename(p) == Slice(p, LastIndex(p, "/") + 1, Len(p))

\* Path(p).expanduser().resolve() for a path without '~', '.' or '..' parts
Resolve(p) == IF StartsWith(p, "/") THEN p ELSE Cwd \o <<"/">> \o p

Opts(read_only) == IF read_only THEN <<"r", "o">> ELSE <<"r", "w">>

\* parse_volume_spec: [src, dest, opts]
parse_volume_spec(spec, read_only) ==
    IF /\ Count(spec, ":") > 0
       /\ ~StartsWith(spec, "/")
       /\ ~(Slice(spec, 2, IF Len(spec) < 3 THEN Len(spec) ELSE 3) = <<":", "\\">>)
    THEN LET c == FirstIndex(spec, ":")
             d == Slice(spec, c + 1, Len(spec))
         IN  [src |-> Resolve(Slice(spec, 1, c - 1)),
              dest |-> IF StartsWith(d, "/") THEN d ELSE <<"/", "r", "o", "o", "t", "/">> \o d,
              opts |-> Opts(read_only)]
    ELSE [src |-> Resolve(spec),
          dest |-> <<"/", "r", "o", "o", "t", "/">> \o Basename(Resolve(spec)),
          opts |-> Opts(read_only)]

\* _process_local_mount: the volume arguments and the destination
_process_local_mount(spec, read_only) ==
    LET v == parse_volume_spec(spec, read_only) IN
    [mount_args |-> << <<"-v">>, v.src \o <<":">> \o v.dest \o <<":">> \o v.opts >>,
     dest |-> v.dest]

\* prepare_ssh_mount: the part of the spec handed to create_ssh_mount
SshPart(spec) == IF Count(spec, ":") > 1 THEN RSplitHead(spec) ELSE spec

\* the mount point create_ssh_mount derives from the parsed spec
LocalMountPath(ssh_spec) ==
    LET u == parse_ssh_url(ssh_spec)
        under == [i \in 1..Len(u.remote_path) |->
                     IF u.remote_path[i] = "/" THEN "_" ELSE u.remote_path[i]]
    IN  mount_base \o <<"/">> \o (IF u.user = NoPath THEN <<"nouser">> ELSE u.user)
            \o <<"@">> \o u.host \o <<"-">> \o under

\* Mutant of _process_ssh_mount: a failed mount still yields a volume argument.
_process_ssh_mount_KeepsFailed(spec, read_only, local_mount_path) ==
    LET d0 == IF Count(spec, ":") > 1 THEN RSplitTail(spec)
              ELSE <<"/", "r", "o", "o", "t", "/">> \o Basename(parse_ssh_url(spec).remote_path)
        container_dest == IF StartsWith(d0, "/") THEN d0
                          ELSE <<"/", "r", "o", "o", "t", "/">> \o d0
    IN  [mount_args |-> << <<"-v">>,
                           local_mount_path \o <<":">> \o container_dest \o <<":">> \o Opts(read_only) >>,
         dest |-> IF local_mount_path = NoPath THEN NoPath ELSE container_dest]

\* _process_ssh_mount, given the path create_ssh_mount returned (NoPath for None)
_process_ssh_mount(spec, read_only, local_mount_path) ==
    IF local_mount_path = NoPath THEN [mount_args |-> <<>>, dest |-> NoPath]
    ELSE LET d0 == IF Count(spec, ":") > 1 THEN RSplitTail(spec)
                   ELSE <<"/", "r", "o", "o", "t", "/">> \o Basename(parse_ssh_url(spec).remote_path)
             container_dest == IF StartsWith(d0, "/") THEN d0
                               ELSE <<"/", "r", "o", "o", "t", "/">> \o d0
         IN  [mount_args |-> << <<"-v">>,
                                local_mount_path \o <<":">> \o container_dest \o <<":">> \o Opts(read_only) >>,
              dest |-> container_dest]

\* The mount specs of the model.
LocalA  == <<"/", "a">>
LocalB  == <<"b", "/", "c", ":", "/", "w">>
LocalC  == <<"/", "d", "/", "e">>
RemoteR == <<"h", ":", "/", "r">>
RemoteU == <<"u", "@", "h", ":", "/", "s">>
RemoteD == <<"h", ":", "/", "r", ":", "/", "d">>

---------------------------------------------------------------------------
(* Invocations: the parsed command line and the caller's working directory *)

\* argparse's defaults; an option that was not given is falsy (None or []),
\* which the code only ever tests for truth.
NoArgs ==
    [ node |-> FALSE, py |-> FALSE, image |-> None, image_version |-> None,
      port |-> <<>>, read_only |-> <<>>, read_write |-> <<>>, tmux |-> FALSE,
      name |-> None, force |-> FALSE, clean |-> FALSE, list |-> FALSE,
      no_network |-> FALSE, internal_network |-> FALSE, http_proxy |-> None,
      command |-> <<>> ]

\* box npm install / box -t NPM start / box ls / box -V 3.9 python app.py / box bash /
\* box --http-proxy http://p:3128 -ro h:/r:/d ls
AnonymousArgs ==
    { [NoArgs EXCEPT !.command = <<"npm", "install">>],
      [NoArgs EXCEPT !.command = <<"NPM", "start">>, !.tmux = TRUE, !.port = << <<"3000">> >>],
      [NoArgs EXCEPT !.command = <<"ls">>, !.read_only = <<RemoteR>>, !.read_write = <<LocalA>>],
      [NoArgs EXCEPT !.command = <<"python", "app.py">>, !.image_version = "3.9"],
      [NoArgs EXCEPT !.command = <<"bash">>],
      [NoArgs EXCEPT !.command = <<"ls">>, !.read_only = <<RemoteD>>,
                     !.http_proxy = "http://p:3128"] }

\* box -n dev ...
SaveArgs ==
    { [NoArgs EXCEPT !.name = "dev", !.node = TRUE, !.port = << <<"3000">> >>,
                     !.command = <<"npm", "start">>],
      [NoArgs EXCEPT !.name = "dev", !.force = TRUE, !.command = <<"pip", "install">>,
                     !.read_only = <<LocalA, RemoteR>>, !.read_write = <<LocalC>>],
      [NoArgs EXCEPT !.name = "dev", !.py = TRUE, !.tmux = TRUE,
                     !.read_write = <<LocalA, LocalB>>],
      [NoArgs EXCEPT !.name = "dev", !.force = TRUE, !.read_only = <<RemoteU>>],
      [NoArgs EXCEPT !.name = "dev", !.force = TRUE, !.no_network = TRUE,
                     !.http_proxy = "http://p:3128"],
      [NoArgs EXCEPT !.name = "dev", !.force = TRUE, !.py = TRUE, !.internal_network = TRUE,
                     !.http_proxy = "http://q:8080"] }

\* box -i dev ...
UseArgs ==
    { [NoArgs EXCEPT !.image = "dev"],
      [NoArgs EXCEPT !.image = "dev", !.read_only = <<LocalB>>, !.command = <<"ls">>],
      [NoArgs EXCEPT !.image = "dev", !.read_write = <<RemoteR, LocalC>>, !.tmux = TRUE,
                     !.port = << <<"8080", ":", "80">> >>],
      [NoArgs EXCEPT !.image = "dev", !.read_only = <<LocalC, LocalB>>,
                     !.read_write = <<LocalB>>],
      [NoArgs EXCEPT !.image = "dev", !.internal_network = TRUE],
      [NoArgs EXCEPT !.image = "dev", !.no_network = TRUE,
                     !.http_proxy = "http://p:3128"] }

\* box --clean / box -l
OtherArgs ==
    { [NoArgs EXCEPT !.clean = TRUE], [NoArgs EXCEPT !.list = TRUE] }

ArgSet == AnonymousArgs \cup SaveArgs \cup UseArgs \cup OtherArgs

\* The marker files of the working directory matter to a shell command only.
Invocations ==
    { [args |-> a, cwd |-> {}] : a \in ArgSet }
    \cup { [args |-> [NoArgs EXCEPT !.command = <<"bash">>], cwd |-> {"python"}] }

---------------------------------------------------------------------------
(* State *)

VARIABLES
    disk,              \* the configuration file ~/.box-cli/config.json
    images,            \* the runtime's local images (names of derived images)
    containers,        \* the runtime's containers that outlive a run
    host_mounts,       \* SSHFS mount points currently mounted on the host
    runs,              \* invocations started so far
    last,              \* the previous invocation's get_or_build_image call
    pc,                \* position in main()
    argv,              \* args as parsed
    args,              \* args as main() has changed them
    cwd,               \* marker files of the caller's working directory
    config,            \* ConfigManager.config
    response,          \* what was typed at the overwrite prompt
    saved,             \* result of save_image_config: "none", "True", "False"
    caller,            \* who called build_named_image_with_command
    ops,               \* runtime operations issued by this invocation
    image,             \* the resolved image
    mi,                \* index of the next mount spec of get_volume_args
    volume_args,
    first_mount_dest,
    mount_dests,       \* history: the destination each processed spec returned
    first_mount_index, \* history: the spec that set first_mount_dest, 0 for none
    ssh_mounts,        \* SSHFSManager.ssh_mounts: tracked mount points
    run_args,          \* what main() hands to the runtime
    exit_code          \* -1 while the process runs

world == <<disk, images, containers, host_mounts, runs, last>>
\* what get_volume_args computes
mountvars == <<mi, volume_args, first_mount_dest, mount_dests, first_mount_index>>
proc == <<pc, argv, args, cwd, config, response, saved, caller, ops, image, mountvars,
          ssh_mounts, run_args, exit_code>>
vars == <<world, proc>>

\* A runtime operation that returned (ok: exit code 0), and one that did not
\* return: subprocess.run raised ("raised") or the user interrupted it
\* ("interrupted").
Op(o, a, success) == [op |-> o, arg |-> a, ok |-> success, end |-> "returned"]
\* A command run on the host for the mount point path.
HostOp(o, p, success) == [op |-> o, arg |-> "", ok |-> success, end |-> "returned", path |-> p]
OpEnd(o, a, how) == [op |-> o, arg |-> a, ok |-> FALSE, end |-> how]

NoRun == [volumes |-> <<>>, ports |-> <<>>, network |-> <<>>, env |-> <<>>,
          image |-> None, workdir |-> NoPath, tmux |-> FALSE, command |-> <<>>]

NoLast == [args |-> NoArgs, cwd |-> {}, image |-> None]

Init ==
    /\ disk \in {NoFile, [state |-> "corrupt", data |-> EmptyConfig],
                 [state |-> "undecodable", data |-> EmptyConfig],
                 [state |-> "ok", data |-> ObjectWithoutImages]}
    /\ images = {}
    /\ containers = {}
    /\ host_mounts = {}
    /\ runs = 0
    /\ last = NoLast
    /\ pc = "idle"
    /\ argv = NoArgs
    /\ args = NoArgs
    /\ cwd = {}
    /\ config = EmptyConfig
    /\ response = <<>>
    /\ saved = "none"
    /\ caller = "none"
    /\ ops = <<>>
    /\ image = None
    /\ mi = 1
    /\ volume_args = <<>>
    /\ first_mount_dest = NoPath
    /\ mount_dests = <<>>
    /\ first_mount_index = 0
    /\ ssh_mounts = <<>>
    /\ run_args = NoRun
    /\ exit_code = -1

---------------------------------------------------------------------------
(* main(): start-up *)

\* The shell starts the tool.  What the previous invocation resolved through
\* get_or_build_image is remembered for comparison.
Start(inv) ==
    /\ pc \in {"idle", "done"}
    /\ runs < MaxRuns
    /\ runs' = runs + 1
    /\ last' = IF pc = "done" /\ argv.image = None /\ image # None
               THEN [args |-> argv, cwd |-> cwd, image |-> image]
               ELSE NoLast
    /\ pc' = "init"
    /\ argv' = inv.args
    /\ args' = inv.args
    /\ cwd' = inv.cwd
    /\ config' = EmptyConfig
    /\ response' = <<>>
    /\ saved' = "none"
    /\ caller' = "none"
    /\ ops' = <<>>
    /\ image' = None
    /\ mi' = 1
    /\ volume_args' = <<>>
    /\ first_mount_dest' = NoPath
    /\ mount_dests' = <<>>
    /\ first_mount_index' = 0
    /\ ssh_mounts' = <<>>
    /\ run_args' = NoRun
    /\ exit_code' = -1
    /\ UNCHANGED <<disk, images, containers, host_mounts>>

\* sys.exit(code): the process ends
Exit(code) == pc' = "done" /\ exit_code' = code

\* Mutant of ContainerRuntimeInit: the result of the probe is not used.
ContainerRuntimeInitIgnoresProbe ==
    /\ pc = "init"
    /\ \E found \in BOOLEAN, running \in BOOLEAN :
          IF ~found
          THEN Exit(1) /\ UNCHANGED ops
          ELSE /\ ops' = Append(ops, Op("version", "", running))
               /\ pc' = "config" /\ UNCHANGED exit_code
    /\ UNCHANGED <<world, argv, args, cwd, config, response, saved, caller, image,
                   mountvars, ssh_mounts, run_args>>

\* ContainerRuntime.__init__: _detect_runtime, then the version probe
ContainerRuntimeInit ==
    /\ pc = "init"
    /\ \E found \in BOOLEAN, running \in BOOLEAN :
          IF ~found
          THEN Exit(1) /\ UNCHANGED ops
          ELSE /\ ops' = Append(ops, Op("version", "", running))
               /\ IF running THEN pc' = "config" /\ UNCHANGED exit_code ELSE Exit(1)
    /\ UNCHANGED <<world, argv, args, cwd, config, response, saved, caller, image,
                   mountvars, ssh_mounts, run_args>>

\* ConfigManager.__init__
ConfigManagerInit ==
    /\ pc = "config"
    /\ IF LoadRaises(disk)
       THEN \* the exception leaves main(): traceback, exit status 1
            Exit(1) /\ UNCHANGED config
       ELSE config' = _load_config(disk) /\ pc' = "dispatch" /\ UNCHANGED exit_code
    /\ UNCHANGED <<world, argv, args, cwd, response, saved, caller, ops, image,
                   mountvars, ssh_mounts, run_args>>

---------------------------------------------------------------------------
(* main(): --clean and --list *)

\* the lines of the runtime's image listing, in the runtime's order
RECURSIVE SetToSeq(_)
SetToSeq(S) == IF S = {} THEN <<>>
               ELSE LET x == CHOOSE y \in S : TRUE IN <<x>> \o SetToSeq(S \ {x})

\* clean_box_images, then sys.exit(0)
CleanBoxImages ==
    /\ pc = "dispatch"
    /\ args.clean
    /\ \E listed \in BOOLEAN, removed \in SUBSET images :
          IF ~listed
          THEN /\ removed = {}
               /\ ops' = Append(ops, Op("images", "box-*", FALSE))
               /\ UNCHANGED images
          ELSE /\ ops' = Append(ops, Op("images", "box-*", TRUE))
                         \o [i \in 1..Cardinality(images) |->
                               Op("rmi", SetToSeq(images)[i], SetToSeq(images)[i] \in removed)]
               /\ images' = images \ removed
    /\ Exit(0)
    /\ UNCHANGED <<disk, containers, host_mounts, runs, last, argv, args, cwd, config,
                   response, saved, caller, image, mountvars,
                   ssh_mounts, run_args>>

\* display_named_images, then sys.exit(0)
DisplayNamedImages ==
    /\ pc = "dispatch"
    /\ ~args.clean
    /\ args.list
    /\ Exit(0)
    /\ UNCHANGED <<world, argv, args, cwd, config, response, saved, caller, ops, image,
                   mountvars, ssh_mounts, run_args>>

---------------------------------------------------------------------------
(* main(): -n <name>, ConfigManager.save_image_config *)

\* the auto-detection main() applies to args before saving
DetectEnvironment(a, dir) ==
    IF ~a.node /\ ~a.py /\ a.command # <<>>
    THEN LET detected_type == detect_container_type_from_command(a.command, dir) IN
         IF detected_type = "node" THEN [a EXCEPT !.node = TRUE]
         ELSE IF detected_type = "python" THEN [a EXCEPT !.py = TRUE]
         ELSE a
    ELSE a

\* "if not force and name in self.config.get('images', {})"
NeedsConfirmation(cfg, name, force) == ~force /\ HasImage(cfg, name)

\* _save_config: open(config_file, 'w') and json.dump; an IOError is caught.
\* "denied": open fails; "partial": the write fails after the file was truncated.
WriteOutcomes == {"ok", "denied", "partial"}
_save_config(file, cfg, outcome) ==
    CASE outcome = "ok" -> [state |-> "ok", data |-> cfg]
      [] outcome = "denied" -> file
      [] outcome = "partial" -> [state |-> "corrupt", data |-> EmptyConfig]

\* the target of the immediate build of "box -n <name> <command>"
NameTarget(a, dir) == get_box_image_name(get_base_image(a, dir), a.tmux, a.name)

SaveImageConfig ==
    /\ pc = "dispatch"
    /\ ~args.clean
    /\ ~args.list
    /\ args.name # None
    /\ LET a == DetectEnvironment(args, cwd) IN
       /\ args' = a
       /\ \E r \in Responses, w \in WriteOutcomes :
             IF NeedsConfirmation(config, a.name, a.force) /\ ~Confirmed(r)
             THEN \* "Operation cancelled.": return False, main() exits 0
                  /\ w = "ok"
                  /\ response' = r
                  /\ saved' = "False"
                  /\ Exit(0)
                  /\ UNCHANGED <<config, disk, caller>>
             ELSE IF SaveRaises(config)
             THEN \* line 87: the KeyError leaves main(): traceback, exit status 1
                  /\ r = <<>> /\ w = "ok"
                  /\ Exit(1)
                  /\ UNCHANGED <<config, disk, caller, response, saved>>
             ELSE /\ IF NeedsConfirmation(config, a.name, a.force)
                     THEN response' = r
                     ELSE r = <<>> /\ response' = <<>>
                  /\ config' = WithImage(config, a.name, ConfigEntry(a))
                  /\ disk' = _save_config(disk, config', w)
                  /\ saved' = "True"
                  /\ IF a.command # <<>>
                     THEN pc' = "bnc_inspect" /\ caller' = "name"
                     ELSE pc' = "select" /\ caller' = "none"
                  /\ UNCHANGED exit_code
    /\ UNCHANGED <<images, containers, host_mounts, runs, last, argv, cwd, ops, image,
                   mountvars, ssh_mounts, run_args>>

\* get_image_config
get_image_config(cfg, name) == IF HasImage(cfg, name) THEN cfg.images[name] ELSE None

\* list_named_images
list_named_images(cfg) == IF "images" \in DOMAIN cfg THEN DOMAIN cfg.images ELSE {}

---------------------------------------------------------------------------
(* main(): -i <name>, the saved configuration applied to args *)

\* Mutant of MergeMounts: supplied mounts replace the saved ones.
MergeMountsReplace(saved_list, supplied) ==
    IF supplied # <<>> THEN supplied ELSE saved_list

\* Mutant of MergeMounts: supplied mounts come first.
MergeMountsSuppliedFirst(saved_list, supplied) ==
    IF supplied # <<>> THEN supplied \o saved_list ELSE saved_list

\* "args.read_only = saved_ro + args.read_only" or "args.read_only = saved_ro"
MergeMounts(saved_list, supplied) ==
    IF supplied # <<>> THEN saved_list \o supplied ELSE saved_list

\* Mutant of ApplyConfig: ports and the tmux flag given on the command line
\* are kept.
ApplyConfigKeepsSupplied(a, entry) ==
    [a EXCEPT !.tmux = a.tmux \/ entry.tmux,
              !.port = IF a.port # <<>> THEN a.port ELSE entry.port,
              !.read_only = MergeMounts(entry.read_only, a.read_only),
              !.read_write = MergeMounts(entry.read_write, a.read_write),
              !.no_network = IF ~a.no_network THEN entry.no_network ELSE a.no_network,
              !.internal_network = IF ~a.internal_network THEN entry.internal_network
                                   ELSE a.internal_network,
              !.http_proxy = IF a.http_proxy = None \/ a.http_proxy = ""
                             THEN entry.http_proxy ELSE a.http_proxy,
              !.command = IF a.command = <<>> THEN entry.command ELSE a.command]

\* main(), lines 1028-1057
ApplyConfig(a, entry) ==
    [a EXCEPT !.tmux = entry.tmux,
              !.port = entry.port,
              !.read_only = MergeMounts(entry.read_only, a.read_only),
              !.read_write = MergeMounts(entry.read_write, a.read_write),
              !.no_network = IF ~a.no_network THEN entry.no_network ELSE a.no_network,
              !.internal_network = IF ~a.internal_network THEN entry.internal_network
                                   ELSE a.internal_network,
              !.http_proxy = IF a.http_proxy = None \/ a.http_proxy = ""
                             THEN entry.http_proxy ELSE a.http_proxy,
              !.command = IF a.command = <<>> THEN entry.command ELSE a.command]

\* the point of main() where the image is chosen (line 1013)
AtSelect ==
    \/ pc = "select"
    \/ pc = "dispatch" /\ ~args.clean /\ ~args.list /\ args.name = None

\* Mutant of NamedImageNotFound: the error is reported but the exit status is 0.
NamedImageNotFoundExitsZero ==
    /\ AtSelect
    /\ args.image # None
    /\ ~HasImage(config, args.image)
    /\ Exit(0)
    /\ UNCHANGED <<world, argv, args, cwd, config, response, saved, caller, ops, image,
                   mountvars, ssh_mounts, run_args>>

\* "Error: No configuration found for image", sys.exit(1)
NamedImageNotFound ==
    /\ AtSelect
    /\ args.image # None
    /\ ~HasImage(config, args.image)
    /\ Exit(1)
    /\ UNCHANGED <<world, argv, args, cwd, config, response, saved, caller, ops, image,
                   mountvars, ssh_mounts, run_args>>

---------------------------------------------------------------------------
(* ImageBuilder.get_or_build_named_image *)

\* box_image_name of get_or_build_named_image
NamedTarget ==
    LET entry == get_image_config(config, args.image) IN
    get_box_image_name(get_base_image(Args(entry, args.image), cwd), entry.tmux, args.image)

NamedBase == get_base_image(Args(get_image_config(config, args.image), args.image), cwd)

\* get_or_build_named_image returned box_image_name: main() applies the entry
NamedDone(n) ==
    /\ image' = n
    /\ args' = ApplyConfig(args, get_image_config(config, args.image))
    /\ pc' = "volumes"
    /\ UNCHANGED exit_code

\* Mutant of NamedInspect: the image is rebuilt although it exists.
NamedInspectNoSkip ==
    /\ AtSelect
    /\ args.image # None
    /\ HasImage(config, args.image)
    /\ ops' = Append(ops, Op("inspect", NamedTarget, NamedTarget \in images))
    /\ IF get_image_config(config, args.image).command # <<>>
       THEN pc' = "bnc_inspect" /\ caller' = "image"
       ELSE pc' = "named_pull" /\ UNCHANGED caller
    /\ UNCHANGED <<world, argv, args, cwd, config, response, saved, image, mountvars,
                   ssh_mounts, run_args, exit_code>>

\* image_exists(box_image_name) and the branch on config.get('command')
NamedInspect ==
    /\ AtSelect
    /\ args.image # None
    /\ HasImage(config, args.image)
    /\ ops' = Append(ops, Op("inspect", NamedTarget, NamedTarget \in images))
    /\ IF NamedTarget \in images
       THEN NamedDone(NamedTarget) /\ UNCHANGED caller
       ELSE /\ IF get_image_config(config, args.image).command # <<>>
               THEN pc' = "bnc_inspect" /\ caller' = "image"
               ELSE pc' = "named_pull" /\ UNCHANGED caller
            /\ UNCHANGED <<image, args, exit_code>>
    /\ UNCHANGED <<world, argv, cwd, config, response, saved, mountvars, ssh_mounts, run_args>>

\* _pull_base_image: a failed pull is a warning
NamedPull ==
    /\ pc = "named_pull"
    /\ \E success \in BOOLEAN : ops' = Append(ops, Op("pull", Join(NamedBase), success))
    /\ pc' = "named_build"
    /\ UNCHANGED <<world, argv, args, cwd, config, response, saved, caller, image,
                   mountvars, ssh_mounts, run_args, exit_code>>

\* build_image; "if not self.build_image(...): return None", main() exits 1
NamedBuild ==
    /\ pc = "named_build"
    /\ \E success \in BOOLEAN :
          /\ ops' = Append(ops, Op("build", NamedTarget, success))
          /\ IF success
             THEN images' = images \cup {NamedTarget} /\ NamedDone(NamedTarget)
             ELSE Exit(1) /\ UNCHANGED <<images, image, args>>
    /\ UNCHANGED <<disk, containers, host_mounts, runs, last, argv, cwd, config, response,
                   saved, caller, mountvars, ssh_mounts, run_args>>

---------------------------------------------------------------------------
(* ImageBuilder.get_or_build_image *)

GobBase == get_base_image(args, cwd)

\* custom_name = args.name
GobTarget == get_box_image_name(GobBase, args.tmux, args.name)

\* Mutant of GobInspect: the result of the existence check is not used.
GobInspectNoSkip ==
    /\ AtSelect
    /\ args.image = None
    /\ ops' = Append(ops, Op("inspect", GobTarget, GobTarget \in images))
    /\ pc' = "gob_pull"
    /\ UNCHANGED <<world, argv, args, cwd, config, response, saved, caller, image, mountvars,
                   ssh_mounts, run_args, exit_code>>

GobInspect ==
    /\ AtSelect
    /\ args.image = None
    /\ ops' = Append(ops, Op("inspect", GobTarget, GobTarget \in images))
    /\ IF GobTarget \in images
       THEN image' = GobTarget /\ pc' = "volumes"
       ELSE pc' = "gob_pull" /\ UNCHANGED image
    /\ UNCHANGED <<world, argv, args, cwd, config, response, saved, caller, mountvars,
                   ssh_mounts, run_args, exit_code>>

\* Mutant of GobPull: a failed pull gives up the build and falls back to the
\* base image.
GobPullFailureSkipsBuild ==
    /\ pc = "gob_pull"
    /\ \E success \in BOOLEAN :
          /\ ops' = Append(ops, Op("pull", Join(GobBase), success))
          /\ IF success
             THEN pc' = "gob_build" /\ UNCHANGED image
             ELSE pc' = "volumes" /\ image' = Join(GobBase)
    /\ UNCHANGED <<world, argv, args, cwd, config, response, saved, caller,
                   mountvars, ssh_mounts, run_args, exit_code>>

\* _pull_base_image, its result unused
GobPull ==
    /\ pc = "gob_pull"
    /\ \E success \in BOOLEAN : ops' = Append(ops, Op("pull", Join(GobBase), success))
    /\ pc' = "gob_build"
    /\ UNCHANGED <<world, argv, args, cwd, config, response, saved, caller, image,
                   mountvars, ssh_mounts, run_args, exit_code>>

\* build_image, and the fallback to the base image
GobBuild ==
    /\ pc = "gob_build"
    /\ \E success \in BOOLEAN :
          /\ ops' = Append(ops, Op("build", GobTarget, success))
          /\ IF success
             THEN images' = images \cup {GobTarget} /\ image' = GobTarget
             ELSE image' = Join(GobBase) /\ UNCHANGED images
    /\ pc' = "volumes"
    /\ UNCHANGED <<disk, containers, host_mounts, runs, last, argv, args, cwd, config,
                   response, saved, caller, mountvars, ssh_mounts,
                   run_args, exit_code>>

---------------------------------------------------------------------------
(* ImageBuilder.build_named_image_with_command(name, config, target_image_name) *)

\* The call's arguments: from main() ("box -n") or from get_or_build_named_image.
BncName == IF caller = "name" THEN args.name ELSE args.image
BncEntry == IF caller = "name" THEN ConfigEntry(args) ELSE get_image_config(config, args.image)
BncTarget == IF caller = "name" THEN NameTarget(args, cwd) ELSE NamedTarget

\* base_args = Args(config, None)
BncBase == get_base_image(Args(BncEntry, None), cwd)
box_base_image == get_box_image_name(BncBase, BncEntry.tmux, None)

\* f'box-build-{name}'
BuildContainer == "box-build-" \o BncName

\* Mutant of BncReturn: main() does not exit after a successful build.
BncReturnFallsThrough(result) ==
    IF result = None
    THEN Exit(1) /\ UNCHANGED <<image, args>>
    ELSE IF caller = "name"
         THEN pc' = "select" /\ UNCHANGED <<image, args, exit_code>>
         ELSE NamedDone(result)

\* The function returns result (None or the target) to its caller.
BncReturn(result) ==
    IF caller = "name"
    THEN /\ Exit(IF result # None THEN 0 ELSE 1)
         /\ UNCHANGED <<image, args>>
    ELSE IF result = None
         THEN Exit(1) /\ UNCHANGED <<image, args>>
         ELSE NamedDone(result)

\* an uncaught KeyboardInterrupt ends the process
Interrupted == Exit(130) /\ UNCHANGED <<image, args>>

BncInspect ==
    /\ pc = "bnc_inspect"
    /\ ops' = Append(ops, Op("inspect", box_base_image, box_base_image \in images))
    /\ pc' = IF box_base_image \in images THEN "bnc_run" ELSE "bnc_pull"
    /\ UNCHANGED <<world, argv, args, cwd, config, response, saved, caller, image,
                   mountvars, ssh_mounts, run_args, exit_code>>

BncPull ==
    /\ pc = "bnc_pull"
    /\ \E success \in BOOLEAN : ops' = Append(ops, Op("pull", Join(BncBase), success))
    /\ pc' = "bnc_build"
    /\ UNCHANGED <<world, argv, args, cwd, config, response, saved, caller, image,
                   mountvars, ssh_mounts, run_args, exit_code>>

BncBuild ==
    /\ pc = "bnc_build"
    /\ \E success \in BOOLEAN :
          /\ ops' = Append(ops, Op("build", box_base_image, success))
          /\ IF success
             THEN /\ images' = images \cup {box_base_image}
                  /\ pc' = "bnc_run"
                  /\ UNCHANGED <<image, args, exit_code>>
             ELSE BncReturn(None) /\ UNCHANGED images
    /\ UNCHANGED <<disk, containers, host_mounts, runs, last, argv, cwd, config, response,
                   saved, caller, mountvars, ssh_mounts, run_args>>

\* How "run --name box-build-<name>" can end.  The runtime refuses a name that
\* is in use, so the run cannot succeed while an earlier build container is
\* still there.
RunOutcomes == IF BuildContainer \in containers
               THEN {"fail", "raised", "interrupted"}
               ELSE {"ok", "fail", "raised", "interrupted"}

\* the container "rm" leaves nothing behind
Removed(cs) == cs \ {BuildContainer}

\* Mutant of BncRun: the exit code of the setup command is not checked.
BncRunIgnoresExitCode ==
    /\ pc = "bnc_run"
    /\ \E outcome \in RunOutcomes :
          CASE outcome = "ok" ->
                 /\ ops' = Append(ops, Op("run --name", BuildContainer, TRUE))
                 /\ containers' = containers \cup {BuildContainer}
                 /\ pc' = "bnc_commit"
                 /\ UNCHANGED <<image, args, exit_code>>
            [] outcome = "fail" ->
                 /\ ops' = Append(ops, Op("run --name", BuildContainer, FALSE))
                 /\ containers' = containers \cup {BuildContainer}
                 /\ pc' = "bnc_commit"
                 /\ UNCHANGED <<image, args, exit_code>>
            [] outcome = "raised" ->
                 /\ ops' = ops \o <<OpEnd("run --name", BuildContainer, "raised"),
                                    Op("rm", BuildContainer, BuildContainer \in containers)>>
                 /\ containers' = Removed(containers)
                 /\ BncReturn(None)
            [] outcome = "interrupted" ->
                 /\ ops' = Append(ops, OpEnd("run --name", BuildContainer, "interrupted"))
                 /\ containers' = containers \cup {BuildContainer}
                 /\ Interrupted
    /\ UNCHANGED <<disk, images, host_mounts, runs, last, argv, cwd, config, response,
                   saved, caller, mountvars, ssh_mounts, run_args>>

\* lines 531-544 and 564-568: the setup command
BncRun ==
    /\ pc = "bnc_run"
    /\ \E outcome \in RunOutcomes :
          CASE outcome = "ok" ->
                 /\ ops' = Append(ops, Op("run --name", BuildContainer, TRUE))
                 /\ containers' = containers \cup {BuildContainer}
                 /\ pc' = "bnc_commit"
                 /\ UNCHANGED <<image, args, exit_code>>
            [] outcome = "fail" ->
                 /\ ops' = ops \o <<Op("run --name", BuildContainer, FALSE),
                                    Op("rm", BuildContainer, TRUE)>>
                 /\ containers' = Removed(containers \cup {BuildContainer})
                 /\ BncReturn(None)
            [] outcome = "raised" ->
                 /\ ops' = ops \o <<OpEnd("run --name", BuildContainer, "raised"),
                                    Op("rm", BuildContainer, BuildContainer \in containers)>>
                 /\ containers' = Removed(containers)
                 /\ BncReturn(None)
            [] outcome = "interrupted" ->
                 /\ ops' = Append(ops, OpEnd("run --name", BuildContainer, "interrupted"))
                 /\ containers' = containers \cup {BuildContainer}
                 /\ Interrupted
    /\ UNCHANGED <<disk, images, host_mounts, runs, last, argv, cwd, config, response,
                   saved, caller, mountvars, ssh_mounts, run_args>>

\* lines 546-568: commit, then rm
BncCommit ==
    /\ pc = "bnc_commit"
    /\ \E outcome \in {"ok", "fail", "raised", "interrupted"} :
          CASE outcome = "ok" ->
                 /\ ops' = ops \o <<Op("commit", BncTarget, TRUE),
                                    Op("rm", BuildContainer, TRUE)>>
                 /\ images' = images \cup {BncTarget}
                 /\ containers' = Removed(containers)
                 /\ BncReturn(BncTarget)
            [] outcome = "fail" ->
                 /\ ops' = ops \o <<Op("commit", BncTarget, FALSE),
                                    Op("rm", BuildContainer, TRUE)>>
                 /\ containers' = Removed(containers)
                 /\ BncReturn(None)
                 /\ UNCHANGED images
            [] outcome = "raised" ->
                 /\ ops' = ops \o <<OpEnd("commit", BncTarget, "raised"),
                                    Op("rm", BuildContainer, TRUE)>>
                 /\ containers' = Removed(containers)
                 /\ BncReturn(None)
                 /\ UNCHANGED images
            [] outcome = "interrupted" ->
                 /\ ops' = Append(ops, OpEnd("commit", BncTarget, "interrupted"))
                 /\ Interrupted
                 /\ UNCHANGED <<images, containers>>
    /\ UNCHANGED <<disk, host_mounts, runs, last, argv, cwd, config, response,
                   saved, caller, mountvars, ssh_mounts, run_args>>

---------------------------------------------------------------------------
(* VolumeMapper.get_volume_args and SSHFSManager.create_ssh_mount *)

\* the specs in the order get_volume_args processes them
MountSpecs(a) == a.read_only \o a.read_write

\* How create_ssh_mount can end for one spec.
SshOutcomes == {"no_sshfs", "mount_failed", "mount_timeout", "mounted",
                "verify_failed", "verify_failed_stuck", "verify_timeout"}

\* the path create_ssh_mount returns (NoPath for None)
create_ssh_mount_result(ssh_spec, outcome) ==
    IF outcome = "mounted" THEN LocalMountPath(ssh_spec) ELSE NoPath

\* the host commands create_ssh_mount runs
create_ssh_mount_ops(p, outcome) ==
    CASE outcome = "no_sshfs" -> <<>>
      [] outcome = "mount_failed" -> <<HostOp("sshfs", p, FALSE)>>
      [] outcome = "mount_timeout" -> <<HostOp("sshfs", p, FALSE)>>
      [] outcome = "mounted" -> <<HostOp("sshfs", p, TRUE), HostOp("ls", p, TRUE)>>
      [] outcome = "verify_failed" ->
            <<HostOp("sshfs", p, TRUE), HostOp("ls", p, FALSE), HostOp("umount", p, TRUE)>>
      [] outcome = "verify_failed_stuck" ->
            <<HostOp("sshfs", p, TRUE), HostOp("ls", p, FALSE), HostOp("umount", p, FALSE)>>
      [] outcome = "verify_timeout" -> <<HostOp("sshfs", p, TRUE), HostOp("ls", p, FALSE)>>

\* Mutant of FirstDest: the last mount wins.
FirstDestLastWins(current, dest) == IF dest # NoPath THEN dest ELSE current

\* "if first_mount_dest is None: first_mount_dest = dest"
FirstDest(current, dest) == IF current = NoPath THEN dest ELSE current

\* one iteration of the loops of get_volume_args: _process_mount_spec
ProcessMountSpec ==
    /\ pc = "volumes"
    /\ mi <= Len(MountSpecs(args))
    /\ LET spec == MountSpecs(args)[mi]
           read_only == mi <= Len(args.read_only)
       IN  \E outcome \in SshOutcomes :
             LET p == LocalMountPath(SshPart(spec))
                 r == IF is_ssh_url(spec)
                      THEN _process_ssh_mount(spec, read_only,
                                              create_ssh_mount_result(SshPart(spec), outcome))
                      ELSE _process_local_mount(spec, read_only)
             IN  /\ IF is_ssh_url(spec)
                    THEN /\ ops' = ops \o create_ssh_mount_ops(p, outcome)
                         /\ host_mounts' =
                              IF outcome \in {"mounted", "verify_failed_stuck", "verify_timeout"}
                              THEN host_mounts \cup {p} ELSE host_mounts
                         /\ ssh_mounts' =
                              IF outcome = "mounted"
                              THEN Append(ssh_mounts, [local_path |-> p,
                                                       remote_spec |-> SshPart(spec),
                                                       is_mounted |-> TRUE])
                              ELSE ssh_mounts
                    ELSE /\ outcome = "mounted"
                         /\ UNCHANGED <<ops, host_mounts, ssh_mounts>>
                 /\ volume_args' = volume_args \o r.mount_args
                 /\ first_mount_dest' = FirstDest(first_mount_dest, r.dest)
                 /\ mount_dests' = Append(mount_dests, r.dest)
                 /\ first_mount_index' = IF first_mount_dest' # first_mount_dest
                                         THEN mi ELSE first_mount_index
    /\ mi' = mi + 1
    /\ UNCHANGED <<disk, images, containers, runs, last, pc, argv, args, cwd, config,
                   response, saved, caller, image, run_args, exit_code>>

---------------------------------------------------------------------------
(* PortMapper, NetworkManager and the run command of main() *)

\* parse_port_spec and get_port_args for one spec
PortArg(spec) ==
    LET c == FirstIndex(spec, ":") IN
    IF c > 0 THEN <<"-p", Join(Slice(spec, 1, c - 1)) \o ":" \o Join(Slice(spec, c + 1, Len(spec)))>>
    ELSE <<"-p", Join(spec) \o ":" \o Join(spec)>>

get_port_args(a) == Concat([i \in 1..Len(a.port) |-> PortArg(a.port[i])])

_internal_network_name == "box-internal"

\* Mutant of NetworkArgs: the internal network is tested first.
NetworkArgsInternalFirst(a) ==
    IF a.internal_network THEN <<"--network", _internal_network_name>>
    ELSE IF a.no_network THEN <<"--network", "none">>
    ELSE <<>>

\* network_args of get_network_args
NetworkArgs(a) ==
    IF a.no_network THEN <<"--network", "none">>
    ELSE IF a.internal_network THEN <<"--network", _internal_network_name>>
    ELSE <<>>

\* Mutant of EnvArgs: only the upper-case variables are set.
EnvArgsUpperOnly(a) ==
    IF a.http_proxy # None /\ a.http_proxy # ""
    THEN <<"-e", "HTTP_PROXY=" \o a.http_proxy, "-e", "HTTPS_PROXY=" \o a.http_proxy>>
    ELSE <<>>

\* env_vars of get_network_args, as format_env_args lists them
EnvArgs(a) ==
    IF a.http_proxy # None /\ a.http_proxy # ""
    THEN <<"-e", "HTTP_PROXY=" \o a.http_proxy, "-e", "HTTPS_PROXY=" \o a.http_proxy,
           "-e", "http_proxy=" \o a.http_proxy, "-e", "https_proxy=" \o a.http_proxy>>
    ELSE <<>>

\* Mutant of EnsureNetworkOps: the network is created without looking at the
\* result of the inspect.
EnsureNetworkOpsAlwaysCreates(exists, created) ==
    <<Op("network inspect", _internal_network_name, exists),
      Op("network create", _internal_network_name, created)>>

\* _ensure_internal_network: inspect, and create when the inspect failed
EnsureNetworkOps(exists, created) ==
    IF exists THEN <<Op("network inspect", _internal_network_name, TRUE)>>
    ELSE <<Op("network inspect", _internal_network_name, FALSE),
           Op("network create", _internal_network_name, created)>>

\* main(), lines 1062-1118: the run command.  workdir is the directory of the
\* "cd ... ||  cd /root" prefix, NoPath when the command has no such prefix.
BuildRunArgs ==
    /\ pc = "volumes"
    /\ mi > Len(MountSpecs(args))
    /\ \E exists \in BOOLEAN, created \in BOOLEAN :
          IF ~args.no_network /\ args.internal_network
          THEN /\ (exists => created)
               /\ ops' = ops \o EnsureNetworkOps(exists, created)
          ELSE exists /\ created /\ UNCHANGED ops
    /\ run_args' = [volumes |-> volume_args, ports |-> get_port_args(args),
                    network |-> NetworkArgs(args), env |-> EnvArgs(args),
                    image |-> image, workdir |-> first_mount_dest,
                    tmux |-> args.tmux, command |-> args.command]
    /\ pc' = "run"
    /\ UNCHANGED <<world, argv, args, cwd, config, response, saved, caller, image,
                   mountvars, ssh_mounts, exit_code>>

\* How "run --rm -it ..." can end: the container's exit code (0 or 2), an exception of
\* subprocess.run, or the user's interrupt.
ContainerOutcomes == {"exit0", "exit2", "raised", "interrupted"}

\* Mutant of ReturnCode: an interrupt is reported like any other exception.
ReturnCodeInterruptIsError(outcome) ==
    CASE outcome = "exit0" -> 0
      [] outcome = "exit2" -> 2
      [] outcome = "interrupted" -> 1
      [] outcome = "raised" -> 1

\* return_code of main()
ReturnCode(outcome) ==
    CASE outcome = "exit0" -> 0
      [] outcome = "exit2" -> 2
      [] outcome = "interrupted" -> 130
      [] outcome = "raised" -> 1

\* cleanup_mounts: every tracked mount point is unmounted if the host lets it
\* (unmounted: those whose unmount succeeded), and the list is cleared.
cleanup_mounts_ops(tracked, unmounted) ==
    [i \in 1..Len(tracked) |->
        HostOp("umount", tracked[i].local_path, tracked[i].local_path \in unmounted)]

TrackedPaths(tracked) == {tracked[i].local_path : i \in 1..Len(tracked)}

\* main(), lines 1120-1135: the container run, the finally clause, sys.exit
RunContainer ==
    /\ pc = "run"
    /\ \E outcome \in ContainerOutcomes, unmounted \in SUBSET TrackedPaths(ssh_mounts) :
          /\ ops' = Append(ops, IF outcome \in {"exit0", "exit2"}
                                THEN Op("run --rm", image, outcome = "exit0")
                                ELSE OpEnd("run --rm", image, outcome))
                    \o cleanup_mounts_ops(ssh_mounts, unmounted)
          /\ host_mounts' = host_mounts \ unmounted
          /\ ssh_mounts' = <<>>
          /\ Exit(ReturnCode(outcome))
    /\ UNCHANGED <<disk, images, containers, runs, last, argv, args, cwd, config,
                   response, saved, caller, image, mountvars,
                   run_args>>

---------------------------------------------------------------------------
(* Specification *)

Next ==
    \/ \E inv \in Invocations : Start(inv)
    \/ ContainerRuntimeInit
    \/ ConfigManagerInit
    \/ CleanBoxImages
    \/ DisplayNamedImages
    \/ SaveImageConfig
    \/ NamedImageNotFound
    \/ NamedInspect
    \/ NamedPull
    \/ NamedBuild
    \/ GobInspect
    \/ GobPull
    \/ GobBuild
    \/ BncInspect
    \/ BncPull
    \/ BncBuild
    \/ BncRun
    \/ BncCommit
    \/ ProcessMountSpec
    \/ BuildRunArgs
    \/ RunContainer

Spec == Init /\ [][Next]_vars

---------------------------------------------------------------------------
(* ConfigStore properties *)

\* a step of save_image_config (main(), line 977)
SaveStep == pc = "dispatch" /\ pc' # "dispatch" /\ ~args.clean /\ ~args.list /\ args.name # None

\* The responses of the model that are 'y' or 'yes' up to case and
\* surrounding whitespace.
AffirmativeResponses == { <<"y">>, <<"Y">>, <<"y", "e", "s">>,
                          <<" ", "Y", "e", "S", " ">>, <<"\t", "y", "\n">> }

\* C1: for a name that is already stored, save_image_config without force
\* replaces the stored entry only on an affirmative response ('y' or 'yes'
\* after trimming and lower-casing); on any other response it returns False
\* and leaves the in-memory mapping and the file as they were.
C1_DeclinedOverwriteLeavesConfig ==
    [][ (SaveStep /\ ~args.force /\ HasImage(config, args.name)) =>
          IF response' \in AffirmativeResponses
          THEN /\ saved' = "True"
               /\ get_image_config(config', args.name) = ConfigEntry(args')
          ELSE /\ saved' = "False"
               /\ config' = config
               /\ disk' = disk
               /\ get_image_config(config', args.name) = get_image_config(config, args.name)
      ]_vars

\* C1 witness: an overwrite of an existing, different entry was declined.
C1_Witness ==
    /\ pc = "done"
    /\ saved = "False"
    /\ exit_code = 0
    /\ response = <<"y", "e", "s", "s">>
    /\ HasImage(config, args.name)
    /\ get_image_config(config, args.name) # ConfigEntry(args)
    /\ disk.state = "ok"
    /\ disk.data = config

\* C2: save_image_config with force replaces whatever is stored under the
\* name, without a prompt, and returns True.
C2_ForcedSaveReplaces ==
    [][ (SaveStep /\ args.force) =>
          /\ saved' = "True"
          /\ response' = <<>>
          /\ HasImage(config', args.name)
          /\ get_image_config(config', args.name) = ConfigEntry(args')
          /\ \A n \in list_named_images(config) \ {args.name} :
                HasImage(config', n) /\ get_image_config(config', n) = get_image_config(config, n)
      ]_vars

---------------------------------------------------------------------------
(* ImageResolver properties *)

\* main() has an image: get_or_build_image or get_or_build_named_image returned
Resolved == pc \in {"volumes", "run", "done"} /\ image # None

\* the runtime operations on images and build containers of this invocation
IsImageOp(o) == o.op \in {"inspect", "pull", "build", "run --name", "commit", "rm"}
ImageOps == SelectSeq(ops, IsImageOp)

\* this invocation repeats the request of the previous one, which went
\* through get_or_build_image
SameRequestAgain ==
    /\ argv.image = None
    /\ last.image # None
    /\ last.args = argv
    /\ last.cwd = cwd

\* the derived image name of the request
DerivedName == get_box_image_name(get_base_image(argv, cwd), argv.tmux, argv.name)

\* C3 as stated: a second get_or_build_image for the same request returns the
\* same image name as the first and issues only the existence check.
C3_SecondResolveOnlyInspects ==
    (Resolved /\ SameRequestAgain) =>
        /\ image = last.image
        /\ ImageOps = <<Op("inspect", image, TRUE)>>

\* C3 amended: the same, when the first call returned the derived image
\* (it existed or its build succeeded) and not the base image it falls
\* back to after a failed build.
C3_SecondResolveOnlyInspectsAfterSuccess ==
    (Resolved /\ SameRequestAgain /\ last.image = DerivedName) =>
        /\ image = last.image
        /\ ImageOps = <<Op("inspect", image, TRUE)>>

\* C3 witness: the second of two identical requests, resolved by the check.
C3_Witness ==
    /\ pc = "volumes"
    /\ SameRequestAgain
    /\ last.image = DerivedName
    /\ image = DerivedName
    /\ argv.command = <<"NPM", "start">>
    /\ Len(ops) = 2

\* the first image operation is the existence check of get_or_build_image or
\* get_or_build_named_image ("box -n <name> <command>" calls neither)
ResolvesThroughCheck == ~(argv.name # None /\ argv.command # <<>>)

\* C4: when the derived image exists, get_or_build_image and
\* get_or_build_named_image return its name with no pull, build, run or
\* commit; and every build is preceded by a failed existence check of the
\* image it builds.
C4_ExistingImageIsReturned ==
    /\ (ResolvesThroughCheck /\ Len(ImageOps) > 0 /\ ImageOps[1].ok) =>
          /\ ImageOps = <<Op("inspect", ImageOps[1].arg, TRUE)>>
          /\ Resolved
          /\ image = ImageOps[1].arg
          /\ image \in images
    /\ \A j \in 1..Len(ImageOps) :
          ImageOps[j].op \in {"build", "pull"} =>
             \E i \in 1..(j-1) : /\ ImageOps[i].op = "inspect"
                                 /\ ~ImageOps[i].ok
                                 /\ \A k \in (i+1)..(j-1) : ImageOps[k].op = "pull"
                                 /\ ImageOps[j].op = "build" => ImageOps[i].arg = ImageOps[j].arg

\* C4 witness: a named image that exists is returned after the check alone.
C4_Witness ==
    /\ pc = "volumes"
    /\ argv.image # None
    /\ image = NamedTarget
    /\ ImageOps = <<Op("inspect", NamedTarget, TRUE)>>

\* the base image tag of the request
BaseTag == IF argv.image = None THEN Join(GobBase) ELSE Join(NamedBase)

\* C5 as stated: a failed build without a setup command makes the resolution
\* return the base image tag, for anonymous and named images alike, and the
\* process goes on to the container run.
C5_BuildFailureFallsBack ==
    (caller = "none" /\ \E i \in 1..Len(ops) : ops[i].op = "build" /\ ~ops[i].ok) =>
        /\ Resolved
        /\ image = BaseTag
        /\ pc = "done" => \E j \in 1..Len(ops) : ops[j].op = "run --rm"

\* the operations this step adds to the log
NewOps == SubSeq(ops', Len(ops) + 1, Len(ops'))

\* C6: commit is issued only directly after the setup command's run has
\* exited with code 0; when the setup command exits non-zero no commit is
\* issued, no image is created, nothing is returned and the process exits 1.
C6_CommitOnlyAfterSuccessfulSetup ==
    [][ Len(ops') > Len(ops) =>
          /\ \A j \in (Len(ops) + 1)..Len(ops') :
                ops'[j].op = "commit" =>
                   j > 1 /\ ops'[j-1] = Op("run --name", BuildContainer, TRUE)
          /\ (NewOps[1].op = "run --name" /\ NewOps[1].end = "returned" /\ ~NewOps[1].ok) =>
                /\ \A k \in 1..Len(NewOps) : NewOps[k].op # "commit"
                /\ images' = images
                /\ image' = None
                /\ pc' = "done"
                /\ exit_code' = 1
      ]_vars

\* C6 witness: "box -n <name> <command>" whose setup command failed.
C6_Witness ==
    /\ pc = "done"
    /\ exit_code = 1
    /\ caller = "name"
    /\ Len(ops) >= 2
    /\ ops[Len(ops) - 1] = Op("run --name", BuildContainer, FALSE)
    /\ ops[Len(ops)] = Op("rm", BuildContainer, TRUE)
    /\ BncTarget \notin images

\* C7 as stated: once the build container has been started, a remove of it
\* is issued on every path out of build_named_image_with_command and the
\* container is not left behind.
C7_BuildContainerRemoved ==
    \A i \in 1..Len(ops) :
        (ops[i].op = "run --name" /\ pc # "bnc_commit") =>
            /\ \E j \in (i+1)..Len(ops) : ops[j].op = "rm" /\ ops[j].arg = ops[i].arg
            /\ ops[i].arg \notin containers

---------------------------------------------------------------------------
(* Mount resolution properties *)

\* a run of a named image whose configuration has been applied to args
NamedRun == Resolved /\ argv.image # None

SavedRo == get_image_config(config, argv.image).read_only
SavedRw == get_image_config(config, argv.image).read_write

\* C8: for each access mode the effective mount list of a named-image run is
\* the saved list followed by the supplied list, each in its own order.
C8_MountMergeLaw ==
    NamedRun =>
        /\ args.read_only = SavedRo \o argv.read_only
        /\ args.read_write = SavedRw \o argv.read_write
        /\ SavedRo = <<>> => args.read_only = argv.read_only
        /\ argv.read_write = <<>> => args.read_write = SavedRw

\* C8 witness: two saved and two supplied read-write mounts.
C8_Witness ==
    /\ NamedRun
    /\ SavedRw = <<LocalA, LocalB>>
    /\ argv.read_write = <<RemoteR, LocalC>>
    /\ args.read_write = <<LocalA, LocalB, RemoteR, LocalC>>

\* Positions in the final order MountSpecs(args): the saved mounts lead each
\* access mode's list.
IsSaved(i) ==
    \/ i \in 1..Len(SavedRo)
    \/ i \in (Len(args.read_only) + 1)..(Len(args.read_only) + Len(SavedRw))
IsNew(i) == i \in 1..Len(MountSpecs(args)) /\ ~IsSaved(i)

BothExist ==
    /\ Len(SavedRo) + Len(SavedRw) > 0
    /\ Len(argv.read_only) + Len(argv.read_write) > 0

\* get_volume_args has processed every spec
VolumesDone == pc \in {"run", "done"} /\ run_args.image # None

\* C9 as stated: in a named-image run with saved and supplied mounts every
\* saved mount precedes every supplied mount in the final order, and the
\* mount that decides the working directory is a saved one.
C9_SavedMountsFirst ==
    (NamedRun /\ BothExist) =>
        /\ \A i, j \in 1..Len(MountSpecs(args)) : (i < j /\ IsSaved(j)) => IsSaved(i)
        /\ (VolumesDone /\ first_mount_index > 0) => IsSaved(first_mount_index)

\* the spec at position i resolved to a mount
ResolvedAt(i) == i \in 1..Len(mount_dests) /\ mount_dests[i] # NoPath

SavedRoResolved == \E i \in 1..Len(SavedRo) : ResolvedAt(i)
NewRoResolved == \E i \in (Len(SavedRo) + 1)..Len(args.read_only) : ResolvedAt(i)
SavedRwResolved ==
    \E i \in (Len(args.read_only) + 1)..(Len(args.read_only) + Len(SavedRw)) : ResolvedAt(i)

\* C9 amended: saved mounts precede supplied mounts of the same access mode,
\* read-only mounts precede read-write mounts; the working directory is
\* decided by a saved mount exactly when a saved read-only mount resolves, or
\* no supplied read-only mount resolves and a saved read-write mount does.
C9_SavedMountsFirstPerMode ==
    (NamedRun /\ BothExist) =>
        /\ MountSpecs(args) = SavedRo \o argv.read_only \o SavedRw \o argv.read_write
        /\ VolumesDone =>
              ((first_mount_index > 0 /\ IsSaved(first_mount_index))
                  <=> (SavedRoResolved \/ (~NewRoResolved /\ SavedRwResolved)))

\* C9 witness: a supplied read-only mount decides the working directory
\* although a saved read-write mount resolved.
C9_Witness ==
    /\ NamedRun
    /\ BothExist
    /\ VolumesDone
    /\ SavedRwResolved
    /\ first_mount_index = 1
    /\ IsNew(1)

\* the destination the spec at position i gets when it resolves
DestAt(i) ==
    LET spec == MountSpecs(args)[i]
        read_only == i <= Len(args.read_only)
    IN  IF is_ssh_url(spec)
        THEN _process_ssh_mount(spec, read_only, LocalMountPath(SshPart(spec))).dest
        ELSE _process_local_mount(spec, read_only).dest

\* C10: the working directory of the run is the destination of the first
\* mount in the final order (read-only specs in input order, then read-write
\* specs in input order); the mounts of the run are the specs that resolved
\* (a remote spec whose SSHFS mount fails yields no mount).  Without mounts
\* there is no directory change.
C10_WorkdirIsFirstMount ==
    VolumesDone =>
        /\ Len(mount_dests) = Len(MountSpecs(args))
        /\ IF \E i \in 1..Len(mount_dests) : ResolvedAt(i)
           THEN LET k == CHOOSE i \in 1..Len(mount_dests) :
                            ResolvedAt(i) /\ \A j \in 1..(i-1) : ~ResolvedAt(j)
                IN  run_args.workdir = DestAt(k)
           ELSE run_args.workdir = NoPath

\* C10 witness: the first spec, a remote one, failed and the second decides.
C10_Witness ==
    /\ VolumesDone
    /\ Len(mount_dests) = 2
    /\ ~ResolvedAt(1)
    /\ ResolvedAt(2)
    /\ run_args.workdir = DestAt(2)

---------------------------------------------------------------------------
(* Mount cleanup and exit code properties *)

\* C11 as stated: when the process has ended, no SSHFS mount that this run
\* created is still mounted, however the container run ended.
C11_RemoteMountsUnmountedAtExit ==
    pc = "done" =>
        \A i \in 1..Len(ops) :
            (ops[i].op = "sshfs" /\ ops[i].ok) => ops[i].path \notin host_mounts

\* the step that runs the container (main(), lines 1120-1135)
RunStep == pc = "run" /\ pc' # "run"

\* C12: an interrupt during the container run ends in exit code 130, an
\* exception in exit code 1, a completed run in the container's own exit
\* code; in each case an unmount of every tracked mount is attempted and the
\* tracking list is cleared before the process exits.
C12_ExitCodeOfRun ==
    [][ RunStep =>
          /\ NewOps[1].op = "run --rm"
          /\ pc' = "done"
          /\ NewOps[1].end = "interrupted" => exit_code' = 130
          /\ NewOps[1].end = "raised" => exit_code' = 1
          /\ NewOps[1].end = "returned" => exit_code' = IF NewOps[1].ok THEN 0 ELSE 2
          /\ \A k \in 1..Len(ssh_mounts) :
                \E j \in 2..Len(NewOps) :
                    NewOps[j].op = "umount" /\ NewOps[j].path = ssh_mounts[k].local_path
          /\ ssh_mounts' = <<>>
      ]_vars

\* C12 witness: a run with a tracked SSHFS mount was interrupted.
C12_Witness ==
    /\ pc = "done"
    /\ exit_code = 130
    /\ \E i \in 1..Len(ops) :
          /\ ops[i] = OpEnd("run --rm", image, "interrupted")
          /\ i < Len(ops)
          /\ ops[i+1].op = "umount"

\* the volume arguments the spec at position i contributes on its own
ArgsAt(i) ==
    LET spec == MountSpecs(args)[i]
        read_only == i <= Len(args.read_only)
    IN  IF ~ResolvedAt(i) THEN <<>>
        ELSE IF is_ssh_url(spec)
        THEN _process_ssh_mount(spec, read_only, LocalMountPath(SshPart(spec))).mount_args
        ELSE _process_local_mount(spec, read_only).mount_args

\* C13: a remote spec that fails to resolve contributes no volume argument;
\* every other spec, local ones always, is resolved and passed to the run in
\* order, and the container run is started.
C13_FailedRemoteMountIsSkipped ==
    /\ VolumesDone =>
          /\ Len(mount_dests) = Len(MountSpecs(args))
          /\ \A i \in 1..Len(mount_dests) :
                ~is_ssh_url(MountSpecs(args)[i]) => ResolvedAt(i)
          /\ run_args.volumes = Concat([i \in 1..Len(mount_dests) |-> ArgsAt(i)])
    /\ (pc = "done" /\ Len(mount_dests) > 0) =>
          \E j \in 1..Len(ops) : ops[j].op = "run --rm"

\* C13 witness: of three specs the second, a remote one, failed; the run
\* was started with the volumes of the first and the third.
C13_Witness ==
    /\ pc = "done"
    /\ Len(mount_dests) = 3
    /\ ResolvedAt(1) /\ ~ResolvedAt(2) /\ ResolvedAt(3)
    /\ is_ssh_url(MountSpecs(args)[2])
    /\ run_args.volumes = ArgsAt(1) \o ArgsAt(3)
    /\ Len(run_args.volumes) = 4
    /\ \E j \in 1..Len(ops) : ops[j].op = "run --rm"

\* a spec of the form [user@]host:remotepath:dest
IsRemoteWithDest(spec) == Count(spec, ":") > 1 /\ is_ssh_url(RSplitHead(spec))

\* C14 as stated: a spec [user@]host:remotepath:dest is mounted from the
\* SSHFS mount point of host:remotepath at the destination after the last
\* ':'; a remote spec with one ':' gets /root/<basename(remotepath)>.
C14_RemoteSpecDestination ==
    VolumesDone =>
        \A i \in 1..Len(mount_dests) :
            LET spec == MountSpecs(args)[i]
                read_only == i <= Len(args.read_only)
            IN  /\ (IsRemoteWithDest(spec) /\ ResolvedAt(i)) =>
                      /\ mount_dests[i] = RSplitTail(spec)
                      /\ \E k \in 1..Len(run_args.volumes) :
                            run_args.volumes[k] =
                               LocalMountPath(RSplitHead(spec)) \o <<":">> \o RSplitTail(spec)
                                  \o <<":">> \o Opts(read_only)
                /\ (is_ssh_url(spec) /\ Count(spec, ":") = 1 /\ ResolvedAt(i)) =>
                      mount_dests[i] = <<"/", "r", "o", "o", "t", "/">>
                                          \o Basename(parse_ssh_url(spec).remote_path)

---------------------------------------------------------------------------
(* NetworkManager properties *)

\* the network arguments of a mode
ModeArgs(no_network, internal_network) ==
    IF no_network THEN <<"--network", "none">>
    ELSE IF internal_network THEN <<"--network", "box-internal">>
    ELSE <<>>

\* C15 as stated: in a named-image run the network arguments are those of
\* the mode supplied at invocation time, and those of the saved mode only
\* when no mode was supplied.
C15_SuppliedNetworkModeWins ==
    (NamedRun /\ VolumesDone) =>
        run_args.network =
            IF argv.no_network \/ argv.internal_network
            THEN ModeArgs(argv.no_network, argv.internal_network)
            ELSE ModeArgs(get_image_config(config, argv.image).no_network,
                          get_image_config(config, argv.image).internal_network)

\* an operation of _ensure_internal_network
IsNetworkOp(o) == o.op \in {"network inspect", "network create"}

\* C16: when the effective arguments have both no_network and
\* internal_network, the network arguments are exactly --network none and
\* the internal network is neither inspected nor created.
C16_NoNetworkWins ==
    (VolumesDone /\ args.no_network /\ args.internal_network) =>
        /\ run_args.network = <<"--network", "none">>
        /\ \A j \in 1..Len(ops) : ~IsNetworkOp(ops[j])

\* C16 witness: a run whose effective arguments have both flags.
C16_Witness ==
    /\ pc = "done"
    /\ VolumesDone
    /\ args.no_network
    /\ args.internal_network
    /\ run_args.network = <<"--network", "none">>
    /\ \E j \in 1..Len(ops) : ops[j].op = "run --rm"

\* the assignments of the -e arguments
EnvAssignments == {run_args.env[2 * k] : k \in 1..(Len(run_args.env) \div 2)}

\* C17: with a proxy URL the run gets exactly the four assignments
\* HTTP_PROXY, HTTPS_PROXY, http_proxy and https_proxy, all to that URL,
\* whatever the network mode; without one it gets no environment variable.
C17_ProxyEnvironment ==
    VolumesDone =>
        IF args.http_proxy # None /\ args.http_proxy # ""
        THEN /\ Len(run_args.env) = 8
             /\ \A k \in 1..4 : run_args.env[2 * k - 1] = "-e"
             /\ EnvAssignments = { "HTTP_PROXY=" \o args.http_proxy,
                                   "HTTPS_PROXY=" \o args.http_proxy,
                                   "http_proxy=" \o args.http_proxy,
                                   "https_proxy=" \o args.http_proxy }
        ELSE run_args.env = <<>>

\* C17 witness: a proxy on the internal network.
C17_Witness ==
    /\ VolumesDone
    /\ args.http_proxy = "http://q:8080"
    /\ run_args.network = <<"--network", "box-internal">>
    /\ Len(run_args.env) = 8

---------------------------------------------------------------------------
(* ConfigStore: loading and write failures *)

\* C18 as stated: loading the configuration never raises; a missing file and
\* a file that cannot be parsed yield the empty mapping, a well-formed file
\* its content.
C18_LoadNeverRaises ==
    [][ (pc = "config" /\ pc' # "config") =>
          /\ pc' = "dispatch"
          /\ config' = IF disk.state = "ok" THEN disk.data ELSE EmptyConfig
      ]_vars

\* the save is not subject to a declined confirmation
Accepted ==
    \/ args.force
    \/ ~HasImage(config, args.name)
    \/ response' \in AffirmativeResponses

\* C19: when the write of the configuration file (reached once the entry is
\* in the mapping) fails during an accepted save, save_image_config does not
\* raise and returns True, and the in-memory mapping holds the new entry whatever became of the file.
C19_SaveSurvivesWriteFailure ==
    [][ ( /\ SaveStep
          /\ Accepted
          /\ ~SaveRaises(config)
          /\ disk' # [state |-> "ok",
                      data |-> WithImage(config, args.name, ConfigEntry(args'))] ) =>
          /\ saved' = "True"
          /\ exit_code' = -1
          /\ pc' \in {"bnc_inspect", "select"}
          /\ HasImage(config', args.name)
          /\ get_image_config(config', args.name) = ConfigEntry(args')
          /\ \A n \in list_named_images(config) \ {args.name} :
                HasImage(config', n) /\ config'.images[n] = config.images[n]
          /\ disk' \in {disk, [state |-> "corrupt", data |-> EmptyConfig]}
      ]_vars

\* C19 witness: the save was accepted, the write left a truncated file.
C19_Witness ==
    /\ saved = "True"
    /\ argv.name # None
    /\ disk.state = "corrupt"
    /\ HasImage(config, args.name)
    /\ get_image_config(config, args.name) = ConfigEntry(args)

---------------------------------------------------------------------------
(* main(): -n <name> with a setup command *)

NameBuildRun == argv.name # None /\ argv.command # <<>>

IsBuildOp(o) == o.op \in {"inspect", "pull", "build", "run --name", "commit", "rm"}

BuildCommitted == \E j \in 1..Len(ops) : ops[j].op = "commit" /\ ops[j].ok

BuildInterrupted == Len(ops) > 0 /\ ops[Len(ops)].end = "interrupted"

\* C20: "box -n <name> <command>" stores the configuration before any build
\* operation and goes straight to the setup-command build; it never starts
\* the interactive container run; it exits 0 when the build succeeded and 1
\* when it failed (and only a user interrupt ends it otherwise); a declined
\* overwrite exits 0 without any build operation.
C20_NameWithCommandBuildsAndExits ==
    NameBuildRun =>
        /\ \A j \in 1..Len(ops) : ops[j].op # "run --rm"
        /\ pc \in {"init", "config", "dispatch", "bnc_inspect", "bnc_pull", "bnc_build",
                   "bnc_run", "bnc_commit", "done"}
        /\ (\E j \in 1..Len(ops) : IsBuildOp(ops[j])) =>
              /\ saved = "True"
              /\ HasImage(config, argv.name)
              /\ get_image_config(config, argv.name) = ConfigEntry(args)
        /\ (saved = "True" /\ pc # "done") => pc \in {"bnc_inspect", "bnc_pull", "bnc_build",
                                                     "bnc_run", "bnc_commit"}
        /\ (saved = "True" /\ pc = "done") =>
              /\ \E j \in 1..Len(ops) : ops[j] = Op("inspect", box_base_image, ops[j].ok)
              /\ exit_code = IF BuildInterrupted THEN 130
                             ELSE IF BuildCommitted THEN 0 ELSE 1
              /\ BuildCommitted => BncTarget \in images
        /\ (saved = "False" /\ pc = "done") =>
              /\ exit_code = 0
              /\ \A j \in 1..Len(ops) : ~IsBuildOp(ops[j])

\* C20 witness: the build succeeded and the process exited 0.
C20_Witness ==
    /\ NameBuildRun
    /\ pc = "done"
    /\ saved = "True"
    /\ BuildCommitted
    /\ exit_code = 0

---------------------------------------------------------------------------
(* Start-up and resolution errors *)

\* C21: "box -i <name>" with nothing stored under the name exits with code 1
\* before any inspect, pull, build or run, and leaves the store as it was.
C21_UnknownNameExitsBeforeAnyOperation ==
    [][ (pc = "dispatch" /\ args.image # None /\ ~HasImage(config, args.image)) =>
          /\ pc' = "done"
          /\ exit_code' = 1
          /\ ops' = ops
          /\ \A j \in 1..Len(ops) : ops[j].op = "version"
          /\ disk' = disk
          /\ config' = config
          /\ images' = images
          /\ containers' = containers
      ]_vars

\* C21 witness: the store was loaded, the name is not in it, exit code 1.
C21_Witness ==
    /\ pc = "done"
    /\ argv.image # None
    /\ disk.state # "undecodable"
    /\ ~HasImage(config, argv.image)
    /\ ops = <<Op("version", "", TRUE)>>
    /\ exit_code = 1

\* C22: no runtime operation is issued unless the version probe came first
\* and succeeded; without a runtime, or with a failed probe, the process
\* exits with code 1 having issued nothing else.
C22_ProbeBeforeAnyRuntimeOperation ==
    /\ \A j \in 1..Len(ops) :
          ops[j].op # "version" => (j > 1 /\ ops[1] = Op("version", "", TRUE))
    /\ (pc \notin {"idle", "init"} /\ (ops = <<>> \/ ~ops[1].ok)) =>
          /\ pc = "done"
          /\ exit_code = 1
          /\ Len(ops) <= 1

\* C22 witness: the probe failed and the process exited 1.
C22_Witness ==
    /\ pc = "done"
    /\ ops = <<Op("version", "", FALSE)>>
    /\ exit_code = 1

\* The last operation issued so far.
LastOp == ops[Len(ops)]

\* The pull was made because the existence check right before it failed.
PullAfterFailedCheck ==
    /\ Len(ops) >= 2
    /\ LastOp.op = "pull"
    /\ ops[Len(ops) - 1].op = "inspect"
    /\ ~ops[Len(ops) - 1].ok

---------------------------------------------------------------------------
(* Remote mounts: repetition and verification *)

\* C24: no mount command is issued for a local path whose mount is still
\* active, and a local path is tracked for cleanup at most once.
C24_RemoteMountIdempotent ==
    [][ /\ \A k \in 1..Len(NewOps) :
             NewOps[k].op = "sshfs" => NewOps[k].path \notin host_mounts
        /\ \A i, j \in 1..Len(ssh_mounts') :
             ssh_mounts'[i].local_path = ssh_mounts'[j].local_path => i = j
      ]_vars

---------------------------------------------------------------------------
(* ImageBuilder.get_base_image on its own: every keyword, flag and version *)

\* First words of a command: every keyword of both sets, the upper-case
\* spellings, the shells and two words in no set.
FirstTokens == node_commands \cup python_commands \cup
               {"NPM", "Python", "BASH", "bash", "sh", "zsh", "ls", "make"}

\* -V absent, or given
EnvVersions == {None, "18"}

\* --node and --py exclude each other (add_mutually_exclusive_group)
EnvFlags == { <<FALSE, FALSE>>, <<TRUE, FALSE>>, <<FALSE, TRUE>> }

\* no command, or a command of two words
EnvCommands == {<<>>} \cup { <<t, "x">> : t \in FirstTokens }

EnvInputs ==
    { [NoArgs EXCEPT !.node = f[1], !.py = f[2], !.image_version = v, !.command = c] :
        f \in EnvFlags, v \in EnvVersions, c \in EnvCommands }

EnvInit ==
    /\ disk = NoFile
    /\ images = {}
    /\ containers = {}
    /\ host_mounts = {}
    /\ runs = 0
    /\ last = NoLast
    /\ pc = "env"
    /\ args \in EnvInputs
    /\ argv = args
    /\ cwd \in SUBSET {"node", "python"}
    /\ config = EmptyConfig
    /\ response = <<>>
    /\ saved = "none"
    /\ caller = "none"
    /\ ops = <<>>
    /\ image = None
    /\ mi = 1
    /\ volume_args = <<>>
    /\ first_mount_dest = NoPath
    /\ mount_dests = <<>>
    /\ first_mount_index = 0
    /\ ssh_mounts = <<>>
    /\ run_args = NoRun
    /\ exit_code = -1

\* base_image = self.get_base_image(args)
GetBaseImage ==
    /\ pc = "env"
    /\ image' = Join(get_base_image(args, cwd))
    /\ pc' = "env_done"
    /\ UNCHANGED <<world, argv, args, cwd, config, response, saved, caller, ops,
                   mountvars, ssh_mounts, run_args, exit_code>>

EnvNext == GetBaseImage

EnvSpec == EnvInit /\ [][EnvNext]_vars

\* the tag of an environment: <repository>:<version | default>
EnvTag(repository, default) ==
    repository \o ":" \o (IF args.image_version = None THEN default ELSE args.image_version)

\* C25: --node or --py decides the base image whatever the command is;
\* without a flag a first word that is, in lower case, a Node keyword gives
\* node:<version|lts>, a Python keyword gives python:<version|latest>, and
\* any other first word that is not a shell gives alpine:latest.
C25_EnvironmentSelection ==
    pc = "env_done" =>
      /\ args.node => image = EnvTag("node", "lts")
      /\ args.py => image = EnvTag("python", "latest")
      /\ (~args.node /\ ~args.py /\ args.command # <<>>) =>
            LET first == LowerWord(args.command[1]) IN
            /\ first \in node_commands => image = EnvTag("node", "lts")
            /\ first \in python_commands => image = EnvTag("python", "latest")
            /\ first \notin node_commands \cup python_commands \cup {"bash", "sh", "zsh"} =>
                  image = "alpine:latest"

\* C25 witness: --py with an upper-case Node command, no version.
C25_Witness ==
    /\ pc = "env_done"
    /\ args.py
    /\ args.command = <<"NPM", "x">>
    /\ args.image_version = None
    /\ image = "python:latest"

---------------------------------------------------------------------------
(* The internal network *)

InternalNetworkArgs == <<"--network", _internal_network_name>>

\* C26: in the internal-only mode the network is inspected; "network create"
\* is issued exactly when the inspect right before it failed; and when the
\* creation fails the run still gets --network box-internal and the
\* container is started.
C26_InternalNetworkInspectThenCreate ==
    /\ \A j \in 1..Len(ops) :
         /\ ops[j].op = "network create" =>
               j > 1 /\ ops[j - 1] = Op("network inspect", _internal_network_name, FALSE)
         /\ (ops[j].op = "network inspect" /\ ~ops[j].ok) =>
               j < Len(ops) /\ ops[j + 1].op = "network create"
         /\ (ops[j].op = "network create" /\ ~ops[j].ok) =>
               /\ pc \in {"run", "done"}
               /\ run_args.network = InternalNetworkArgs
               /\ pc = "done" => j < Len(ops) /\ ops[j + 1].op = "run --rm"
    /\ (VolumesDone /\ run_args.network = InternalNetworkArgs) =>
         Len(SelectSeq(ops, LAMBDA o : o.op = "network inspect")) = 1

\* C26 witness: the inspect failed, the creation failed, the container ran
\* on box-internal.
C26_Witness ==
    /\ pc = "done"
    /\ run_args.network = InternalNetworkArgs
    /\ \E j \in 1..(Len(ops) - 2) :
         /\ ops[j] = Op("network inspect", _internal_network_name, FALSE)
         /\ ops[j + 1] = Op("network create", _internal_network_name, FALSE)
         /\ ops[j + 2].op = "run --rm"

---------------------------------------------------------------------------
(* The configuration store loaded from a JSON object without "images" *)

\* C27: with a loaded mapping that has no "images" member, --list lists
\* nothing and exits 0, -i <name> finds no entry (exit 1, as for an empty
\* store), and -n <name> stores the entry as into an empty mapping and
\* returns True.
C27_StoreUsableWithoutImagesField ==
    [][ (pc = "dispatch" /\ "images" \notin DOMAIN config /\ pc' # "dispatch") =>
          /\ (~args.clean /\ args.list) =>
                list_named_images(config) = {} /\ exit_code' = 0
          /\ (~args.clean /\ ~args.list /\ args.name = None /\ args.image # None) =>
                get_image_config(config, args.image) = None /\ exit_code' = 1
          /\ SaveStep =>
                /\ saved' = "True"
                /\ pc' \in {"bnc_inspect", "select"}
                /\ HasImage(config', args.name)
                /\ get_image_config(config', args.name) = ConfigEntry(args')
      ]_vars

---------------------------------------------------------------------------
(* A named image after its configuration was overwritten *)

\* The previous invocation resolved the same name to its derived image.
PreviousDerived ==
    /\ last.args.name # None
    /\ last.args.name = argv.name
    /\ last.image = get_box_image_name(get_base_image(last.args, last.cwd),
                                       last.args.tmux, last.args.name)

\* The entry stored now selects another base image than the previous one did.
BaseChanged == get_base_image(last.args, last.cwd) # get_base_image(args, cwd)

\* C28: when the entry of a name was overwritten with another environment or
\* version and no setup command, the resolution for the name does not return
\* the derived image of the previous entry: it returns another image or one
\* that it has just built.
C28_NamedImageMatchesStoredConfig ==
    ( /\ Resolved
      /\ argv.name # None
      /\ argv.command = <<>>
      /\ saved = "True"
      /\ PreviousDerived
      /\ BaseChanged ) =>
        \/ image # last.image
        \/ \E j \in 1..Len(ops) : ops[j] = Op("build", image, TRUE)

---------------------------------------------------------------------------
(* create_ssh_mount: the verification of a new mount *)

\* C29: when sshfs succeeded on a free mount point and the listing of the
\* mount point failed or timed out, the spec resolves to no mount and the
\* mount is gone or tracked when create_ssh_mount returns; a mount is tracked
\* only after sshfs and the listing both succeeded.
C29_UnverifiedMountIsReleased ==
    [][ \A k \in 1..Len(NewOps) :
          (pc = "volumes" /\ NewOps[k].op = "sshfs" /\ NewOps[k].path \notin host_mounts) =>
             /\ (NewOps[k].ok /\ ~NewOps[k + 1].ok) =>
                   /\ NewOps[k + 1].op = "ls"
                   /\ mount_dests'[Len(mount_dests')] = NoPath
                   /\ \/ NewOps[k].path \notin host_mounts'
                      \/ NewOps[k].path \in TrackedPaths(ssh_mounts')
             /\ ssh_mounts' # ssh_mounts =>
                   /\ NewOps[k].ok
                   /\ NewOps[k + 1] = HostOp("ls", NewOps[k].path, TRUE)
                   /\ mount_dests'[Len(mount_dests')] # NoPath
      ]_vars

---------------------------------------------------------------------------
(* box -i <name>: ports, tmux and command of the run *)

\* the entry stored under the name of a named-image run
SavedEntry == get_image_config(config, argv.image)

\* C30: a named-image run publishes exactly the saved ports and uses the
\* saved tmux flag, whatever -p and -t say on the command line; its command
\* is the one given on the command line, or the saved one when none is given.
C30_SavedPortsAndTmuxApply ==
    (NamedRun /\ VolumesDone) =>
        /\ args.port = SavedEntry.port
        /\ run_args.ports = get_port_args([port |-> SavedEntry.port])
        /\ run_args.tmux = SavedEntry.tmux
        /\ run_args.command = IF argv.command # <<>> THEN argv.command
                              ELSE SavedEntry.command

\* C30 witness: -t -p 8080:80 given, the entry has port 3000, no tmux and
\* the command "npm start".
C30_Witness ==
    /\ NamedRun
    /\ VolumesDone
    /\ argv.tmux
    /\ argv.port = << <<"8080", ":", "80">> >>
    /\ argv.command = <<>>
    /\ ~run_args.tmux
    /\ run_args.ports = <<"-p", "3000:3000">>
    /\ run_args.command = <<"npm", "start">>

====
